---- MODULE Spec2Model ----
\* A model of the zenoh HTTP plugin (plugins/zenoh-http/src/lib.rs): the
\* server-sent-event subscription loop, the query path and the write path.
EXTENDS Integers, Sequences, FiniteSets, TLC

\* ---------------------------------------------------------------- bounds

\* Samples the transport delivers, over all subscriptions.
MaxSamples == 2
\* Replies a query receives.
MaxReplies == 3

\* Clock steps that make up the idle timer of the race.
Resolution == 2

\* The idle timer of the race, in seconds (Duration::new(10, 0)).
SSE_TIMEOUT == 10

\* The seconds one clock step lasts.
Step == SSE_TIMEOUT \div Resolution

Min(a, b) == IF a < b THEN a ELSE b

\* The streaming connections: two, so that one connection's failure or
\* teardown has another connection to act on. The listener accepts them in
\* the order of their numbers.
Conns == {1, 2}

\* ---------------------------------------------------------------- text

\* Text is a sequence of tokens: a literal chunk of a format string, a
\* resource key, or one decoded character of a payload.
Join(strs, sep) ==
    LET RECURSIVE J(_)
        J(i) == IF i > Len(strs) THEN <<>>
                ELSE IF i = 1 THEN strs[1] \o J(2)
                ELSE sep \o strs[i] \o J(i + 1)
    IN J(1)

\* Payload bytes: "v" and "w" are ASCII bytes, "xFF" is a byte that is not
\* valid UTF-8.
Bytes == {"v", "w", "xFF"}

\* String::from_utf8_lossy: an invalid byte decodes to U+FFFD.
from_utf8_lossy(payload) ==
    [i \in 1..Len(payload) |->
        IF payload[i] = "xFF" THEN "U+FFFD" ELSE payload[i]]

\* ---------------------------------------------------------------- samples

\* The data info of a sample: absent, unreadable, readable without a kind,
\* or readable with a kind.
NoInfo == [some |-> FALSE, readable |-> FALSE, kind |-> "none"]
BadInfo == [some |-> TRUE, readable |-> FALSE, kind |-> "none"]
Info(k) == [some |-> TRUE, readable |-> TRUE, kind |-> k]

\* zenoh_protocol::proto::kind: DEFAULT is PUT, and to_str fails on a kind
\* it does not know.
kind_DEFAULT == "PUT"
kind_to_str(k) ==
    IF k \in {"PUT", "UPDATE", "REMOVE"} THEN [ok |-> TRUE, string |-> k]
    ELSE [ok |-> FALSE, string |-> ""]

get_kind_str(sample) ==
    LET info == sample.info
        kind == IF info.some
                THEN IF info.readable
                     THEN IF info.kind = "none" THEN kind_DEFAULT ELSE info.kind
                     ELSE kind_DEFAULT
                ELSE kind_DEFAULT
        r == kind_to_str(kind)
    IN IF r.ok THEN r.string ELSE "PUT"

sample_to_json(sample) ==
    <<"{ \"key\": \"", sample.reskey, "\", \"value\": \"">>
        \o from_utf8_lossy(sample.payload)
        \o <<"\", \"time\": \"", "None", "\" }">>

Sample(k, p, i) == [reskey |-> k, payload |-> p, info |-> i]

\* The samples the transport delivers to a subscription.
StreamSamples ==
    { Sample("/a", <<"v">>, NoInfo), Sample("/a", <<"xFF">>, Info("REMOVE")) }

NoSample == Sample("", <<>>, NoInfo)

\* ---------------------------------------------------------------- state

VARIABLES
    alive,       \* the gateway process runs
    pc,          \* pc[c]: where connection c's stream task is
    status,      \* status[c]: the HTTP status answered to the streaming GET
    subs,        \* the connections whose subscription the transport holds
    chan,        \* chan[c]: samples waiting in the subscription's channel
    chanOpen,    \* chanOpen[c]: the transport has not ended the channel
    delivered,   \* delivered[c]: every sample the transport delivered to c
    sample,      \* sample[c]: the sample whose send is in flight
    events,      \* events[c]: the events pushed to the client
    timer,       \* timer[c]: seconds the sleep of the race has run, or NoTimer
    idle,        \* idle[c]: seconds the task has waited in sub.next()
    client,      \* client[c]: the HTTP client still reads the stream
    undeclared,  \* undeclared[c]: calls of undeclare_subscriber
    errors,      \* errors[c]: undeclare errors written to the log
    req,         \* the request the handler works on
    rpc,         \* where that handler is
    route,       \* the path the request was dispatched to
    queried,     \* the native queries the request issued
    replies,     \* the replies received on the query's channel
    replyEnd,    \* the reply channel has signalled completion
    writes,      \* the native writes the request issued
    resp,        \* the response to the request
    arg,         \* the value of --http-port
    http_port,   \* the address the server listens on, once resolved
    space,       \* space[p]: the value the data space holds for path p
    put,         \* put[p]: the text/plain payload last PUT to p with success
    prev         \* the last GET answered 200 since the last write request

streamVars == <<alive, pc, status, subs, chan, chanOpen, delivered, sample,
                events, timer, idle, client, undeclared, errors>>

reqVars == <<req, rpc, route, queried, replies, replyEnd, writes, resp>>

runVars == <<arg, http_port>>

storeVars == <<space, put, prev>>

vars == <<streamVars, reqVars, runVars, storeVars>>

NoTimer == 0 - 1

InitStream ==
    /\ alive = TRUE
    /\ pc = [c \in Conns |-> "none"]
    /\ status = [c \in Conns |-> 0]
    /\ subs = {}
    /\ chan = [c \in Conns |-> <<>>]
    /\ chanOpen = [c \in Conns |-> FALSE]
    /\ delivered = [c \in Conns |-> <<>>]
    /\ sample = [c \in Conns |-> NoSample]
    /\ events = [c \in Conns |-> <<>>]
    /\ timer = [c \in Conns |-> NoTimer]
    /\ idle = [c \in Conns |-> 0]
    /\ client = [c \in Conns |-> FALSE]
    /\ undeclared = [c \in Conns |-> 0]
    /\ errors = [c \in Conns |-> 0]

\* ---------------------------------------------------------------- stream

\* GET with Accept text/event-stream: tide::sse::upgrade answers the request
\* and the closure spawns the detached stream task.
Upgrade(c) ==
    /\ alive
    /\ pc[c] = "none"
    /\ \A b \in Conns : b < c => pc[b] # "none"
    /\ pc' = [pc EXCEPT ![c] = "spawned"]
    /\ status' = [status EXCEPT ![c] = 200]
    /\ client' = [client EXCEPT ![c] = TRUE]
    /\ UNCHANGED <<alive, subs, chan, chanOpen, delivered, sample, events,
                   timer, idle, undeclared, errors>>

\* A panic of the stream task (an unwrap of Err or None). The task is gone;
\* whether the process survives it depends on the executor the build links:
\* both outcomes are possible.
Panic(c, why) ==
    /\ pc' = [pc EXCEPT ![c] = why]
    /\ \E survives \in BOOLEAN : alive' = survives

Panicked(c) == pc[c] \in {"declare_failed", "channel_ended"}

\* session.declare_subscriber(..).await.unwrap()
Declare(c) ==
    /\ alive
    /\ pc[c] = "spawned"
    /\ \E ok \in BOOLEAN :
        IF ok
        THEN /\ subs' = subs \cup {c}
             /\ chanOpen' = [chanOpen EXCEPT ![c] = TRUE]
             /\ pc' = [pc EXCEPT ![c] = "next"]
             /\ UNCHANGED alive
        ELSE /\ Panic(c, "declare_failed")
             /\ UNCHANGED <<subs, chanOpen>>
    /\ UNCHANGED <<status, chan, delivered, sample, events, timer, idle,
                   client, undeclared, errors>>

\* The samples delivered so far, over all subscriptions.
Delivered ==
    LET RECURSIVE Sum(_)
        Sum(S) == IF S = {} THEN 0
                  ELSE LET c == CHOOSE x \in S : TRUE
                       IN Len(delivered[c]) + Sum(S \ {c})
    IN Sum(Conns)

\* The transport delivers a sample on the subscribed path.
Deliver(c, s) ==
    /\ alive
    /\ c \in subs
    /\ chanOpen[c]
    /\ pc[c] \in {"next", "race"}
    /\ Delivered < MaxSamples
    /\ chan' = [chan EXCEPT ![c] = Append(@, s)]
    /\ delivered' = [delivered EXCEPT ![c] = Append(@, s)]
    /\ UNCHANGED <<alive, pc, status, subs, chanOpen, sample, events, timer,
                   idle, client, undeclared, errors>>

\* The transport ends the subscription's channel.
EndChannel(c) ==
    /\ alive
    /\ chanOpen[c]
    /\ pc[c] \in {"next", "race"}
    /\ chanOpen' = [chanOpen EXCEPT ![c] = FALSE]
    /\ UNCHANGED <<alive, pc, status, subs, chan, delivered, sample, events,
                   timer, idle, client, undeclared, errors>>

\* NextSample that takes the newest sample of the channel, not the oldest.
NextSampleLast(c) ==
    /\ alive
    /\ pc[c] = "next"
    /\ chan[c] # <<>>
    /\ sample' = [sample EXCEPT ![c] = chan[c][Len(chan[c])]]
    /\ chan' = [chan EXCEPT ![c] = SubSeq(@, 1, Len(@) - 1)]
    /\ timer' = [timer EXCEPT ![c] = 0]
    /\ idle' = [idle EXCEPT ![c] = 0]
    /\ pc' = [pc EXCEPT ![c] = "race"]
    /\ UNCHANGED <<alive, status, subs, chanOpen, delivered, events, client,
                   undeclared, errors>>

\* NextSample that does not wait for the send in flight: the next sample
\* replaces it and a new race starts.
NextSampleEager(c) ==
    /\ alive
    /\ pc[c] \in {"next", "race"}
    /\ chan[c] # <<>>
    /\ sample' = [sample EXCEPT ![c] = Head(chan[c])]
    /\ chan' = [chan EXCEPT ![c] = Tail(@)]
    /\ timer' = [timer EXCEPT ![c] = 0]
    /\ idle' = [idle EXCEPT ![c] = 0]
    /\ pc' = [pc EXCEPT ![c] = "race"]
    /\ UNCHANGED <<alive, status, subs, chanOpen, delivered, events, client,
                   undeclared, errors>>

\* sub.next().await.unwrap() yields a sample; the send and the sleep of the
\* race are created.
NextSample(c) ==
    /\ alive
    /\ pc[c] = "next"
    /\ chan[c] # <<>>
    /\ sample' = [sample EXCEPT ![c] = Head(chan[c])]
    /\ chan' = [chan EXCEPT ![c] = Tail(@)]
    /\ timer' = [timer EXCEPT ![c] = 0]
    /\ idle' = [idle EXCEPT ![c] = 0]
    /\ pc' = [pc EXCEPT ![c] = "race"]
    /\ UNCHANGED <<alive, status, subs, chanOpen, delivered, events, client,
                   undeclared, errors>>

\* sub.next().await yields None: the channel has ended and is drained.
NextNone(c) ==
    /\ alive
    /\ pc[c] = "next"
    /\ chan[c] = <<>>
    /\ ~chanOpen[c]
    /\ Panic(c, "channel_ended")
    /\ idle' = [idle EXCEPT ![c] = 0]
    /\ UNCHANGED <<status, subs, chan, chanOpen, delivered, sample, events,
                   timer, client, undeclared, errors>>

\* SendDone with a send that returns although the client is gone.
SendDoneClosed(c) ==
    /\ alive
    /\ pc[c] = "race"
    /\ events' = [events EXCEPT ![c] =
            Append(@, [name |-> get_kind_str(sample[c]),
                       data |-> sample_to_json(sample[c])])]
    /\ sample' = [sample EXCEPT ![c] = NoSample]
    /\ timer' = [timer EXCEPT ![c] = NoTimer]
    /\ pc' = [pc EXCEPT ![c] = "next"]
    /\ UNCHANGED <<alive, status, subs, chan, chanOpen, delivered, idle,
                   client, undeclared, errors>>

\* The send wins the race: race polls the send first, so it wins whenever it
\* is complete, and the sleep is dropped.
SendDone(c) ==
    /\ alive
    /\ pc[c] = "race"
    /\ client[c]
    /\ events' = [events EXCEPT ![c] =
            Append(@, [name |-> get_kind_str(sample[c]),
                       data |-> sample_to_json(sample[c])])]
    /\ sample' = [sample EXCEPT ![c] = NoSample]
    /\ timer' = [timer EXCEPT ![c] = NoTimer]
    /\ pc' = [pc EXCEPT ![c] = "next"]
    /\ UNCHANGED <<alive, status, subs, chan, chanOpen, delivered, idle,
                   client, undeclared, errors>>

\* Undeclare that calls undeclare_subscriber again when it fails.
UndeclareRetry(c) ==
    \E ok \in BOOLEAN :
        IF ok
        THEN /\ undeclared' = [undeclared EXCEPT ![c] = @ + 1]
             /\ subs' = subs \ {c}
             /\ UNCHANGED errors
        ELSE /\ undeclared' = [undeclared EXCEPT ![c] = @ + 2]
             /\ subs' = subs \ {c}
             /\ errors' = [errors EXCEPT ![c] = @ + 1]

\* Undeclare by resource path: every subscription of the path is removed.
UndeclareAll(c) ==
    /\ undeclared' = [undeclared EXCEPT ![c] = @ + 1]
    /\ subs' = {}
    /\ \E ok \in BOOLEAN :
        IF ok THEN UNCHANGED errors
        ELSE errors' = [errors EXCEPT ![c] = @ + 1]

\* session.undeclare_subscriber(sub), its error logged. An undeclare that
\* fails may or may not have removed the subscription.
Undeclare(c) ==
    /\ undeclared' = [undeclared EXCEPT ![c] = @ + 1]
    /\ \E ok \in BOOLEAN :
        IF ok
        THEN /\ subs' = subs \ {c}
             /\ UNCHANGED errors
        ELSE /\ subs' \in {subs, subs \ {c}}
             /\ errors' = [errors EXCEPT ![c] = @ + 1]

\* Timeout with the sleep taken as expired before its 10 seconds.
TimeoutNoWait(c) ==
    /\ alive
    /\ pc[c] = "race"
    /\ Undeclare(c)
    /\ sample' = [sample EXCEPT ![c] = NoSample]
    /\ timer' = [timer EXCEPT ![c] = NoTimer]
    /\ pc' = [pc EXCEPT ![c] = "done"]
    /\ UNCHANGED <<alive, status, chan, chanOpen, delivered, events, idle,
                   client>>

\* Timeout without the break: the loop goes on after the undeclare.
TimeoutNoBreak(c) ==
    /\ alive
    /\ pc[c] = "race"
    /\ timer[c] = SSE_TIMEOUT
    /\ Undeclare(c)
    /\ sample' = [sample EXCEPT ![c] = NoSample]
    /\ timer' = [timer EXCEPT ![c] = NoTimer]
    /\ pc' = [pc EXCEPT ![c] = "next"]
    /\ UNCHANGED <<alive, status, chan, chanOpen, delivered, events, idle,
                   client>>

\* Timeout with the sleep raced against sub.next() as well as the send.
TimeoutIdle(c) ==
    /\ alive
    /\ \/ pc[c] = "race" /\ timer[c] = SSE_TIMEOUT
       \/ pc[c] = "next" /\ idle[c] = SSE_TIMEOUT
    /\ Undeclare(c)
    /\ sample' = [sample EXCEPT ![c] = NoSample]
    /\ timer' = [timer EXCEPT ![c] = NoTimer]
    /\ idle' = [idle EXCEPT ![c] = 0]
    /\ pc' = [pc EXCEPT ![c] = "done"]
    /\ UNCHANGED <<alive, status, chan, chanOpen, delivered, events, client>>

\* Timeout whose abandoned send still reaches the client.
TimeoutLateSend(c) ==
    /\ alive
    /\ pc[c] = "race"
    /\ timer[c] = SSE_TIMEOUT
    /\ Undeclare(c)
    /\ events' = [events EXCEPT ![c] =
            Append(@, [name |-> get_kind_str(sample[c]),
                       data |-> sample_to_json(sample[c])])]
    /\ sample' = [sample EXCEPT ![c] = NoSample]
    /\ timer' = [timer EXCEPT ![c] = NoTimer]
    /\ pc' = [pc EXCEPT ![c] = "done"]
    /\ UNCHANGED <<alive, status, chan, chanOpen, delivered, idle, client>>

\* The sleep wins the race: undeclare the subscriber, log its error, break.
Timeout(c) ==
    /\ alive
    /\ pc[c] = "race"
    /\ timer[c] = SSE_TIMEOUT
    /\ Undeclare(c)
    /\ sample' = [sample EXCEPT ![c] = NoSample]
    /\ timer' = [timer EXCEPT ![c] = NoTimer]
    /\ pc' = [pc EXCEPT ![c] = "done"]
    /\ UNCHANGED <<alive, status, chan, chanOpen, delivered, events, idle,
                   client>>

\* The HTTP client goes away; nothing tells the gateway.
ClientClose(c) ==
    /\ alive
    /\ client[c]
    /\ pc[c] \in {"spawned", "next", "race"}
    /\ client' = [client EXCEPT ![c] = FALSE]
    /\ UNCHANGED <<alive, pc, status, subs, chan, chanOpen, delivered, sample,
                   events, timer, idle, undeclared, errors>>

\* One clock step passes: every running sleep advances, and so does the wait of
\* every task in sub.next().
Tick ==
    /\ alive
    /\ \E c \in Conns :
        \/ pc[c] = "race" /\ timer[c] < SSE_TIMEOUT
        \/ pc[c] = "next" /\ idle[c] < SSE_TIMEOUT
    /\ timer' = [c \in Conns |->
            IF pc[c] = "race" /\ timer[c] < SSE_TIMEOUT
            THEN Min(timer[c] + Step, SSE_TIMEOUT) ELSE timer[c]]
    /\ idle' = [c \in Conns |->
            IF pc[c] = "next" /\ idle[c] < SSE_TIMEOUT
            THEN Min(idle[c] + Step, SSE_TIMEOUT) ELSE idle[c]]
    /\ UNCHANGED <<alive, pc, status, subs, chan, chanOpen, delivered, sample,
                   events, client, undeclared, errors>>

\* ---------------------------------------------------------------- requests

\* Option<Mime> of the Content-Type header.
NoMime == [some |-> FALSE, basetype |-> "", subtype |-> ""]
Mime(b, st) == [some |-> TRUE, basetype |-> b, subtype |-> st]
essence(mime) == <<mime.basetype, "/", mime.subtype>>

\* zenoh_protocol::proto::encoding::from_str: the encodings the protocol
\* names.
encoding_from_str(str) ==
    IF str = <<"application", "/", "octet-stream">>
    THEN [ok |-> TRUE, encoding |-> "APP_OCTET_STREAM"]
    ELSE IF str = <<"text", "/", "plain">>
    THEN [ok |-> TRUE, encoding |-> "TEXT_PLAIN"]
    ELSE IF str = <<"application", "/", "json">>
    THEN [ok |-> TRUE, encoding |-> "APP_JSON"]
    ELSE [ok |-> FALSE, encoding |-> ""]

\* enc_from_mime that looks at the base type only.
enc_from_mime_basetype(mime) ==
    IF mime.some
    THEN IF mime.basetype = "text" THEN "TEXT_PLAIN"
         ELSE "APP_OCTET_STREAM"
    ELSE "APP_OCTET_STREAM"

enc_from_mime(mime) ==
    IF mime.some
    THEN LET r == encoding_from_str(essence(mime))
         IN IF r.ok THEN r.encoding
            ELSE IF mime.basetype = "text" THEN "TEXT_PLAIN"
            ELSE "APP_OCTET_STREAM"
    ELSE "APP_OCTET_STREAM"

\* The text of an error, as its Display writes it.
to_string(e) == <<"error: ", e>>

response(status_code, content_type, body) ==
    [status |-> status_code, content_type |-> content_type, body |-> body]

\* Response::new: no content type, an empty body.
Response_new(status_code) ==
    [status |-> status_code, content_type |-> "", body |-> <<>>]

NoResp == Response_new(0)

\* The replies of a query: data, and the two markers that carry none.
ReplyData(k, p) == [type |-> "ReplyData", reskey |-> k, payload |-> p]
SourceFinal == [type |-> "SourceFinal", reskey |-> "", payload |-> <<>>]
ReplyFinal == [type |-> "ReplyFinal", reskey |-> "", payload |-> <<>>]
Replies ==
    { ReplyData("/a", <<"v">>), ReplyData("/b", <<"xFF", "w">>),
      SourceFinal, ReplyFinal }

sample_to_html(smp) ==
    <<"<dt>", smp.reskey, "</dt>\n<dd>">>
        \o from_utf8_lossy(smp.payload)
        \o <<"</dd>\n">>

\* The closure of filter_map: sample_to_json or sample_to_html.
render(rendering, smp) ==
    IF rendering = "html" THEN sample_to_html(smp) ELSE sample_to_json(smp)

\* filter_map over the reply stream, collected: the data replies, rendered.
filter_map(results, rendering) ==
    LET RECURSIVE fm(_)
        fm(rs) ==
            IF rs = <<>> THEN <<>>
            ELSE LET reply == Head(rs)
                 IN IF reply.type = "ReplyData"
                    THEN <<render(rendering,
                                  Sample(reply.reskey, reply.payload, NoInfo))>>
                            \o fm(Tail(rs))
                    ELSE fm(Tail(rs))
    IN fm(results)

\* filter_map that stops at the first reply that is not data.
take_while(results, rendering) ==
    LET RECURSIVE tw(_)
        tw(rs) ==
            IF rs = <<>> \/ Head(rs).type # "ReplyData" THEN <<>>
            ELSE <<render(rendering,
                          Sample(Head(rs).reskey, Head(rs).payload, NoInfo))>>
                    \o tw(Tail(rs))
    IN tw(results)

\* to_json with take_while for filter_map.
to_json_until(results) ==
    <<"[\n">> \o Join(take_while(results, "json"), <<",\n">>)
        \o <<"\n]\n">>

to_json(results) ==
    <<"[\n">> \o Join(filter_map(results, "json"), <<",\n">>)
        \o <<"\n]\n">>

to_html(results) ==
    <<"<dl>\n">> \o Join(filter_map(results, "html"), <<"\n">>)
        \o <<"\n</dl>\n">>

\* The request body: its bytes, or a body whose read fails.
Body(bytes) == [readable |-> TRUE, bytes |-> bytes]
BadBody == [readable |-> FALSE, bytes |-> <<>>]

\* The query string of the URL: absent, or its text.
NoQuery == [some |-> FALSE, str |-> ""]
Query(q) == [some |-> TRUE, str |-> q]

Request(m, a, p, q, b, ct) ==
    [method |-> m, accept |-> a, path |-> p, query |-> q, body |-> b,
     content_type |-> ct]

NoReq == Request("", <<>>, "", NoQuery, Body(<<>>), NoMime)

\* The Accept header: the sequence of its values (empty when the header is
\* absent), each value a text.
AcceptHeaders ==
    { <<>>,
      << <<>> >>,
      << <<"text/event-stream">> >>,
      << <<"text/html">> >>,
      << <<"application/json">> >>,
      << <<"text/event-stream", ",", " ", "text/html", ";", "q=0.9">> >>,
      << <<"text/html", ";", "q=0.9", ",", "text/event-stream">> >>,
      << <<"text/html", ",", "text/event-stream">> >>,
      << <<"*/*", ",", "text/event-stream">> >>,
      << <<" ", "text/event-stream">> >>,
      << <<"text/html">>, <<"text/event-stream">> >> }

Paths == {"/a", "/b"}

GetRequests ==
    { Request("GET", a, p, q, Body(<<>>), NoMime) :
        a \in AcceptHeaders, p \in Paths, q \in {NoQuery, Query("x>1")} }

WriteRequests ==
    { Request(m, a, p, NoQuery, b, ct) :
        m \in {"PUT", "PATCH", "DELETE"},
        a \in {<<>>, << <<"text/event-stream">> >>},
        p \in Paths,
        b \in {Body(<<>>), Body(<<"v">>), Body(<<"xFF", "w">>), BadBody},
        ct \in {NoMime, Mime("text", "plain"), Mime("text", "x-log"),
                Mime("image", "x-raw"), Mime("application", "json")} }

Requests == GetRequests \cup WriteRequests

\* str.split(sep).next().unwrap(): the text before the first separator.
RECURSIVE split_next(_, _)
split_next(str, sep) ==
    IF str = <<>> \/ Head(str) = sep THEN <<>>
    ELSE <<Head(str)>> \o split_next(Tail(str), sep)

\* first_accept without the split on ','.
first_accept_no_comma(r) ==
    IF r.accept # <<>>
    THEN split_next(r.accept[1], ";")
    ELSE <<"application/json">>

first_accept(r) ==
    IF r.accept # <<>>
    THEN split_next(split_next(r.accept[1], ";"), ",")
    ELSE <<"application/json">>

\* ---------------------------------------------------------------- address

\* Text of the command line is a sequence of characters.
PORT_SEPARATOR == ":"
DEFAULT_HTTP_HOST == <<"0", ".", "0", ".", "0", ".", "0">>
DEFAULT_HTTP_PORT == <<"8", "0", "0", "0">>

\* The longest --http-port value.
MaxArgLen == 5

\* The characters of --http-port values: digits that write 65535, 65536 and
\* 70000, a sign, a letter and the separator.
ArgChars == {"0", "3", "5", "6", "7", "+", "h", ":"}

ArgStrings == UNION { [1..n -> ArgChars] : n \in 0..MaxArgLen }

\* u16::MAX.
U16_MAX == 65535

DecimalDigits == <<"0", "1", "2", "3", "4", "5", "6", "7", "8", "9">>

IsDigit(ch) == \E i \in 1..10 : DecimalDigits[i] = ch

to_digit(ch) == (CHOOSE i \in 1..10 : DecimalDigits[i] = ch) - 1

\* str.split(sep): the pieces between the separators.
split(str, sep) ==
    LET RECURSIVE S(_, _)
        S(i, piece) ==
            IF i > Len(str) THEN <<piece>>
            ELSE IF str[i] = sep THEN <<piece>> \o S(i + 1, <<>>)
            ELSE S(i + 1, Append(piece, str[i]))
    IN S(1, <<>>)

\* str.parse::<width>(), an unsigned integer of the given maximum: an
\* optional '+', then one or more decimal digits, accumulated with checked
\* multiplication and addition.
parse_unsigned(str, max) ==
    LET digits == IF str # <<>> /\ Head(str) = "+" THEN Tail(str) ELSE str
        Err == [ok |-> FALSE, value |-> 0]
        RECURSIVE P(_, _)
        P(i, result) ==
            IF i > Len(digits) THEN [ok |-> TRUE, value |-> result]
            ELSE IF ~IsDigit(digits[i]) THEN Err
            ELSE IF result * 10 > max THEN Err
            ELSE IF result * 10 + to_digit(digits[i]) > max THEN Err
            ELSE P(i + 1, result * 10 + to_digit(digits[i]))
    IN IF digits = <<>> THEN Err ELSE P(1, 0)

\* parse_http_port that parses the port as an i32.
parse_http_port_i32(str) ==
    IF Len(split(str, ":")) = 1
    THEN IF parse_unsigned(str, 2147483647).ok
         THEN Join(<<DEFAULT_HTTP_HOST, str>>, <<PORT_SEPARATOR>>)
         ELSE Join(<<str, DEFAULT_HTTP_PORT>>, <<PORT_SEPARATOR>>)
    ELSE str

parse_http_port(str) ==
    IF Len(split(str, ":")) = 1
    THEN IF parse_unsigned(str, U16_MAX).ok
         THEN Join(<<DEFAULT_HTTP_HOST, str>>, <<PORT_SEPARATOR>>)
         ELSE Join(<<str, DEFAULT_HTTP_PORT>>, <<PORT_SEPARATOR>>)
    ELSE str

NoAddr == [set |-> FALSE, addr |-> <<>>]

\* run has resolved the default of --http-port.
InitRun ==
    /\ arg = DEFAULT_HTTP_PORT
    /\ http_port = [set |-> TRUE, addr |-> parse_http_port(arg)]

\* A path of the data space holds a payload or nothing.
NoValue == [some |-> FALSE, payload |-> <<>>]
Value(payload) == [some |-> TRUE, payload |-> payload]

NoPrev == [some |-> FALSE, req |-> NoReq, body |-> <<>>]

\* The data space is empty and no request has been served.
InitStore ==
    /\ space = [p \in Paths |-> NoValue]
    /\ put = [p \in Paths |-> NoValue]
    /\ prev = NoPrev

InitReq ==
    /\ req = NoReq
    /\ rpc = "idle"
    /\ route = "none"
    /\ queried = <<>>
    /\ replies = <<>>
    /\ replyEnd = FALSE
    /\ writes = <<>>
    /\ resp = NoResp

Init == InitStream /\ InitReq /\ InitRun /\ InitStore

\* The listener hands the next request to its handler.
Receive(r) ==
    /\ alive
    /\ rpc = "idle"
    /\ (r.method = "GET" /\ first_accept(r) = <<"text/event-stream">>)
        => \E c \in Conns : pc[c] = "none"
    /\ req' = r
    /\ rpc' = "handling"
    /\ route' = "none"
    /\ queried' = <<>>
    /\ replies' = <<>>
    /\ replyEnd' = FALSE
    /\ writes' = <<>>
    /\ resp' = NoResp
    /\ UNCHANGED streamVars

\* GET, "text/event-stream": the upgrade answers and spawns the stream task.
GetStream(c) ==
    /\ rpc = "handling"
    /\ req.method = "GET"
    /\ first_accept(req) = <<"text/event-stream">>
    /\ Upgrade(c)
    /\ route' = "stream"
    /\ resp' = response(status'[c], "text/event-stream", <<>>)
    /\ rpc' = "responded"
    /\ UNCHANGED <<req, queried, replies, replyEnd, writes>>

\* QueryPath that issues the query a second time when the first one fails.
QueryPathRetry(rendering) ==
    /\ alive
    /\ rpc = "handling"
    /\ req.method = "GET"
    /\ route' = rendering
    /\ LET path == req.path
           predicate == IF req.query.some THEN req.query.str ELSE ""
           query(ok) == [path |-> path, predicate |-> predicate, ok |-> ok]
       IN \E ok \in BOOLEAN :
            IF ok
            THEN /\ queried' = Append(queried, query(TRUE))
                 /\ rpc' = "draining"
                 /\ UNCHANGED resp
            ELSE \E again \in BOOLEAN :
                 /\ queried' = queried \o <<query(FALSE), query(again)>>
                 /\ IF again
                    THEN /\ rpc' = "draining"
                         /\ UNCHANGED resp
                    ELSE /\ rpc' = "responded"
                         /\ resp' = response(500, "text/plain",
                                             to_string("query"))
    /\ UNCHANGED <<req, replies, replyEnd, writes>>
    /\ UNCHANGED streamVars

\* req.state().query(path, predicate, ..).await and the match on its result.
QueryPath(rendering) ==
    /\ alive
    /\ rpc = "handling"
    /\ req.method = "GET"
    /\ route' = rendering
    /\ LET path == req.path
           predicate == IF req.query.some THEN req.query.str ELSE ""
           query(ok) == [path |-> path, predicate |-> predicate, ok |-> ok]
       IN \E ok \in BOOLEAN :
            /\ queried' = Append(queried, query(ok))
            /\ IF ok
               THEN /\ rpc' = "draining"
                    /\ UNCHANGED resp
               ELSE /\ rpc' = "responded"
                    /\ resp' = response(500, "text/plain", to_string("query"))
    /\ UNCHANGED <<req, replies, replyEnd, writes>>
    /\ UNCHANGED streamVars

\* GET, "text/html".
GetHtml ==
    /\ first_accept(req) = <<"text/html">>
    /\ QueryPath("html")

\* GET, any other first accept.
GetJson ==
    /\ first_accept(req) \notin {<<"text/event-stream">>, <<"text/html">>}
    /\ QueryPath("json")

\* The transport puts a reply on the query's channel.
Reply(r) ==
    /\ alive
    /\ rpc = "draining"
    /\ ~replyEnd
    /\ Len(replies) < MaxReplies
    /\ replies' = Append(replies, r)
    /\ UNCHANGED <<req, rpc, route, queried, replyEnd, writes, resp>>
    /\ UNCHANGED streamVars

\* The transport closes the query's channel.
EndReplies ==
    /\ alive
    /\ rpc = "draining"
    /\ ~replyEnd
    /\ replyEnd' = TRUE
    /\ UNCHANGED <<req, rpc, route, queried, replies, writes, resp>>
    /\ UNCHANGED streamVars

\* Render of a consuming read: the resource rendered is removed.
RenderConsuming ==
    /\ alive
    /\ rpc = "draining"
    /\ replyEnd
    /\ resp' = IF route = "html"
               THEN response(200, "text/html", to_html(replies))
               ELSE response(200, "application/json", to_json(replies))
    /\ writes' = Append(writes,
            [path |-> req.path, payload |-> <<>>,
             encoding |-> "APP_OCTET_STREAM", kind |-> "REMOVE", ok |-> TRUE])
    /\ rpc' = "responded"
    /\ UNCHANGED <<req, route, queried, replies, replyEnd>>
    /\ UNCHANGED streamVars

\* to_html(stream).await / to_json(stream).await: the collect ends when the
\* channel does, and the handler answers with the rendering.
Render ==
    /\ alive
    /\ rpc = "draining"
    /\ replyEnd
    /\ resp' = IF route = "html"
               THEN response(200, "text/html", to_html(replies))
               ELSE response(200, "application/json", to_json(replies))
    /\ rpc' = "responded"
    /\ UNCHANGED <<req, route, queried, replies, replyEnd, writes>>
    /\ UNCHANGED streamVars

\* req.state().write_wo(path, payload, encoding, kind).await and the match
\* on its result.
write_wo(payload, kind) ==
    \E ok \in BOOLEAN :
        /\ writes' = Append(writes,
                [path |-> req.path, payload |-> payload,
                 encoding |-> enc_from_mime(req.content_type),
                 kind |-> kind, ok |-> ok])
        /\ resp' = IF ok THEN Response_new(200)
                   ELSE response(500, "text/plain", to_string("write"))

\* The PUT and PATCH handlers: read the body, then write it.
WriteBody(kind) ==
    /\ alive
    /\ rpc = "handling"
    /\ route' = "write"
    /\ IF req.body.readable
       THEN write_wo(req.body.bytes, kind)
       ELSE /\ resp' = response(204, "text/plain", to_string("body"))
            /\ UNCHANGED writes
    /\ rpc' = "responded"
    /\ UNCHANGED <<req, queried, replies, replyEnd>>
    /\ UNCHANGED streamVars

\* Put that writes an empty buffer, as the DELETE handler does.
PutEmptyBuffer ==
    /\ req.method = "PUT"
    /\ alive
    /\ rpc = "handling"
    /\ route' = "write"
    /\ IF req.body.readable
       THEN write_wo(<<>>, "PUT")
       ELSE /\ resp' = response(204, "text/plain", to_string("body"))
            /\ UNCHANGED writes
    /\ rpc' = "responded"
    /\ UNCHANGED <<req, queried, replies, replyEnd>>
    /\ UNCHANGED streamVars

Put ==
    /\ req.method = "PUT"
    /\ WriteBody("PUT")

\* Patch with the kind of the PUT handler it was copied from.
PatchAsPut ==
    /\ req.method = "PATCH"
    /\ WriteBody("PUT")

Patch ==
    /\ req.method = "PATCH"
    /\ WriteBody("UPDATE")

\* Delete that reads a body, as the PUT handler does.
DeleteReadsBody ==
    /\ req.method = "DELETE"
    /\ WriteBody("REMOVE")

\* The DELETE handler: no body is read, an empty buffer is written.
Delete ==
    /\ alive
    /\ rpc = "handling"
    /\ req.method = "DELETE"
    /\ route' = "write"
    /\ write_wo(<<>>, "REMOVE")
    /\ rpc' = "responded"
    /\ UNCHANGED <<req, queried, replies, replyEnd>>
    /\ UNCHANGED streamVars

\* The handler has returned its response: nothing of the request is kept.
Return ==
    /\ rpc = "responded"
    /\ req' = NoReq
    /\ rpc' = "idle"
    /\ route' = "none"
    /\ queried' = <<>>
    /\ replies' = <<>>
    /\ replyEnd' = FALSE
    /\ writes' = <<>>
    /\ resp' = NoResp
    /\ UNCHANGED streamVars

NextReq ==
    \/ \E r \in Requests : Receive(r) /\ UNCHANGED <<runVars, storeVars>>
    \/ Return /\ UNCHANGED <<runVars, storeVars>>
    \/ \E c \in Conns : GetStream(c) /\ UNCHANGED <<runVars, storeVars>>
    \/ GetHtml /\ UNCHANGED <<runVars, storeVars>>
    \/ GetJson /\ UNCHANGED <<runVars, storeVars>>
    \/ \E r \in Replies : Reply(r) /\ UNCHANGED <<runVars, storeVars>>
    \/ EndReplies /\ UNCHANGED <<runVars, storeVars>>
    \/ Render /\ UNCHANGED <<runVars, storeVars>>
    \/ Put /\ UNCHANGED <<runVars, storeVars>>
    \/ Patch /\ UNCHANGED <<runVars, storeVars>>
    \/ Delete /\ UNCHANGED <<runVars, storeVars>>

ReqSpec == Init /\ [][NextReq]_vars

\* ---------------------------------------------------------------- specifications

Next ==
    \/ \E c \in Conns : Upgrade(c) /\ UNCHANGED <<reqVars, runVars, storeVars>>
    \/ \E c \in Conns : Declare(c) /\ UNCHANGED <<reqVars, runVars, storeVars>>
    \/ \E c \in Conns, s \in StreamSamples : Deliver(c, s) /\ UNCHANGED <<reqVars, runVars, storeVars>>
    \/ \E c \in Conns : EndChannel(c) /\ UNCHANGED <<reqVars, runVars, storeVars>>
    \/ \E c \in Conns : NextSample(c) /\ UNCHANGED <<reqVars, runVars, storeVars>>
    \/ \E c \in Conns : NextNone(c) /\ UNCHANGED <<reqVars, runVars, storeVars>>
    \/ \E c \in Conns : SendDone(c) /\ UNCHANGED <<reqVars, runVars, storeVars>>
    \/ \E c \in Conns : Timeout(c) /\ UNCHANGED <<reqVars, runVars, storeVars>>
    \/ \E c \in Conns : ClientClose(c) /\ UNCHANGED <<reqVars, runVars, storeVars>>
    \/ Tick /\ UNCHANGED <<reqVars, runVars, storeVars>>

Spec == Init /\ [][Next]_vars

\* The scheduler runs every task that can take a step, and time passes. The
\* transport and the client owe the gateway nothing: no sample has to arrive
\* and no send has to complete.
Fairness ==
    /\ WF_vars(Tick /\ UNCHANGED <<reqVars, runVars, storeVars>>)
    /\ \A c \in Conns :
        /\ WF_vars(Declare(c) /\ UNCHANGED <<reqVars, runVars, storeVars>>)
        /\ WF_vars(NextSample(c) /\ UNCHANGED <<reqVars, runVars, storeVars>>)
        /\ WF_vars(NextNone(c) /\ UNCHANGED <<reqVars, runVars, storeVars>>)
        /\ WF_vars(Timeout(c) /\ UNCHANGED <<reqVars, runVars, storeVars>>)

FairSpec == Spec /\ Fairness

\* ---------------------------------------------------------------- address resolution

\* run is entered with any --http-port value.
InitPort ==
    /\ InitStream
    /\ InitReq
    /\ InitStore
    /\ arg \in ArgStrings
    /\ http_port = NoAddr

\* let http_port = parse_http_port(args.value_of("http-port").unwrap()).
ResolveAddress ==
    /\ ~http_port.set
    /\ http_port' = [set |-> TRUE, addr |-> parse_http_port(arg)]
    /\ UNCHANGED <<arg, streamVars, reqVars, storeVars>>

NextPort == ResolveAddress

PortSpec == InitPort /\ [][NextPort]_vars


\* ---------------------------------------------------------------- data space

\* The data space behind the session: it keeps, for each path, the payload
\* of the last write that succeeded, and answers a query for a path with
\* the payload it keeps for it.
ApplyWrite(sp, w) ==
    IF ~w.ok THEN sp
    ELSE IF w.kind = "REMOVE" THEN [sp EXCEPT ![w.path] = NoValue]
    ELSE [sp EXCEPT ![w.path] = Value(w.payload)]

Apply(sp, ws) ==
    LET RECURSIVE A(_)
        A(n) == IF n = 0 THEN sp ELSE ApplyWrite(A(n - 1), ws[n])
    IN A(Len(ws))

\* The replies to the query the request issued.
Answer ==
    LET q == queried[1]
    IN IF space[q.path].some
       THEN <<ReplyData(q.path, space[q.path].payload), ReplyFinal>>
       ELSE <<ReplyFinal>>

\* The native writes of a step reach the data space.
Transport ==
    space' = Apply(space, SubSeq(writes', Len(writes) + 1, Len(writes')))

\* A write request has been handled: a PUT of text/plain answered 200 is
\* remembered for its path, any other write request forgets it; the GET
\* remembered is forgotten.
Written ==
    /\ put' = [put EXCEPT ![req.path] =
            IF /\ req.method = "PUT"
               /\ req.content_type = Mime("text", "plain")
               /\ resp'.status = 200
            THEN Value(req.body.bytes)
            ELSE NoValue]
    /\ prev' = NoPrev

\* The requests served over the data space.
StoreRequests ==
    { Request("GET", a, p, NoQuery, Body(<<>>), NoMime) :
        a \in {<<>>, << <<"text/html">> >>}, p \in Paths }
    \cup
    { Request(m, <<>>, p, NoQuery, b, ct) :
        m \in {"PUT", "PATCH", "DELETE"},
        p \in Paths,
        b \in {Body(<<"v">>), Body(<<"xFF", "w">>), BadBody},
        ct \in {NoMime, Mime("text", "plain")} }

StoreReply ==
    /\ queried # <<>>
    /\ Len(replies) < Len(Answer)
    /\ Reply(Answer[Len(replies) + 1])
    /\ UNCHANGED storeVars

StoreEnd ==
    /\ queried # <<>>
    /\ Len(replies) = Len(Answer)
    /\ EndReplies
    /\ UNCHANGED storeVars

\* The response is returned: a GET answered 200 is remembered.
StoreReturn ==
    /\ Return
    /\ prev' = IF req.method = "GET" /\ resp.status = 200
               THEN [some |-> TRUE, req |-> req, body |-> resp.body]
               ELSE prev
    /\ UNCHANGED <<space, put>>

NextStore ==
    \/ \E r \in StoreRequests : Receive(r) /\ UNCHANGED <<runVars, storeVars>>
    \/ StoreReturn /\ UNCHANGED runVars
    \/ GetHtml /\ Transport /\ UNCHANGED <<runVars, put, prev>>
    \/ GetJson /\ Transport /\ UNCHANGED <<runVars, put, prev>>
    \/ StoreReply /\ UNCHANGED runVars
    \/ StoreEnd /\ UNCHANGED runVars
    \/ Render /\ Transport /\ UNCHANGED <<runVars, put, prev>>
    \/ Put /\ Transport /\ Written /\ UNCHANGED runVars
    \/ Patch /\ Transport /\ Written /\ UNCHANGED runVars
    \/ Delete /\ Transport /\ Written /\ UNCHANGED runVars

StoreSpec == Init /\ [][NextStore]_vars


\* ---------------------------------------------------------------- claims

\* C1, as stated: a task that has waited 10 seconds in sub.next() with no
\* sample to take goes on to unregister the subscription and terminate.
C1_IdleTeardown ==
    \A c \in Conns :
        (pc[c] = "next" /\ idle[c] = SSE_TIMEOUT /\ chan[c] = <<>> /\ chanOpen[c])
            ~> (pc[c] = "done" \/ chan[c] # <<>> \/ ~chanOpen[c] \/ ~alive)

\* C1, amended: the 10 seconds bound the send of a sample, not the wait for
\* one. A race that ends without its event pushed ends by the sleep having run
\* its 10 seconds, with the undeclare called once and the task terminated.
C1_SendTimeoutTeardown ==
    [][\A c \in Conns :
        (pc[c] = "race" /\ pc'[c] # "race" /\ events'[c] = events[c])
            => /\ timer[c] = SSE_TIMEOUT
               /\ pc'[c] = "done"
               /\ undeclared'[c] = undeclared[c] + 1]_vars

C1_Witness ==
    \E c \in Conns :
        /\ pc[c] = "done"
        /\ undeclared[c] = 1
        /\ Len(events[c]) < Len(delivered[c])

\* C2: undeclare_subscriber is called at most once for a connection, and a
\* task that has terminated takes no further step: nothing of its own state
\* changes again.
C2_UnregisterOnce ==
    [][\A c \in Conns :
        /\ undeclared'[c] <= 1
        /\ pc[c] = "done" =>
            /\ pc'[c] = "done"
            /\ undeclared'[c] = undeclared[c]
            /\ events'[c] = events[c]
            /\ sample'[c] = sample[c]
            /\ chan'[c] = chan[c]
            /\ timer'[c] = timer[c]]_vars

C2_Witness ==
    \E c \in Conns :
        /\ pc[c] = "done"
        /\ undeclared[c] = 1
        /\ chan[c] # <<>>

C4_TimerGovernsSend ==
    [][\A c \in Conns :
        /\ timer'[c] # NoTimer <=> pc'[c] = "race"
        /\ (timer[c] = NoTimer /\ timer'[c] # NoTimer) =>
            /\ pc[c] = "next"
            /\ timer'[c] = 0
            /\ sample'[c] = Head(chan[c])
        /\ events'[c] # events[c] =>
            /\ pc[c] = "race"
            /\ pc'[c] = "next"
            /\ c \in subs'
            /\ undeclared'[c] = undeclared[c]
        /\ pc[c] = "next" =>
            /\ pc'[c] \in {"next", "race", "channel_ended"}
            /\ undeclared'[c] = undeclared[c]
            /\ (c \in subs <=> c \in subs')
            /\ (pc'[c] = "channel_ended" => ~chanOpen[c] /\ chan[c] = <<>>)]_vars

C4_Witness ==
    \E c \in Conns :
        /\ pc[c] = "next"
        /\ idle[c] = SSE_TIMEOUT
        /\ Len(events[c]) >= 1
        /\ c \in subs

\* C5, as stated: a streaming GET whose declare_subscriber fails is answered
\* with status 500.
C5_DeclareFailureIs500 ==
    \A c \in Conns : pc[c] = "declare_failed" => status[c] = 500

\* C6, as stated: the failure of a stream task (a failed declare, an ended
\* channel) leaves the process, and with it the listener and every other
\* task, running.
C6_FailureIsolated ==
    (\E c \in Conns : Panicked(c)) => alive

\* The text of an Accept value before its first ';' or ','.
FirstToken(value) ==
    LET cut == {i \in 1..Len(value) : value[i] \in {";", ","}}
    IN IF cut = {} THEN value
       ELSE SubSeq(value, 1, (CHOOSE i \in cut : \A j \in cut : i <= j) - 1)

\* The path C7 assigns to a request.
PathOf(r) ==
    IF r.method = "GET"
    THEN IF r.accept = <<>> THEN "json"
         ELSE IF FirstToken(r.accept[1]) = <<"text/event-stream">> THEN "stream"
         ELSE IF FirstToken(r.accept[1]) = <<"text/html">> THEN "html"
         ELSE "json"
    ELSE "write"

\* C7: the handler of a request takes the one path its method and the first
\* token of its first Accept value select, and only that path acts: a stream
\* task is spawned exactly on the streaming path, a native query is issued
\* exactly on the query path, a native write only on the write path; the
\* path taken does not change while the request is served.
C7_Dispatch ==
    [][/\ (rpc = "handling" /\ rpc' # "handling") =>
            /\ route' = PathOf(req)
            /\ route' = "stream" <=> pc' # pc
            /\ route' \in {"html", "json"} <=> Len(queried') = 1
            /\ writes' # <<>> => route' = "write"
            /\ route' \in {"stream", "write"} => queried' = <<>>
       /\ (rpc \in {"draining", "responded"} /\ rpc' # "idle") =>
            /\ route' = route
            /\ queried' = queried
            /\ writes' = writes
            /\ pc' = pc]_vars

C7_Witness ==
    /\ rpc = "responded"
    /\ route = "stream"
    /\ req.accept =
        << <<"text/event-stream", ",", " ", "text/html", ";", "q=0.9">> >>
    /\ \E c \in Conns : pc[c] = "spawned"

\* The entries of a rendered body: each key after the token that opens a
\* key, with the text between the tokens that open and close its value.
Entries(body, keyOpen, valOpen, valClose) ==
    LET RECURSIVE Scan(_)
        Scan(i) ==
            IF i > Len(body) THEN <<>>
            ELSE IF body[i] = keyOpen /\ i + 2 <= Len(body) /\ body[i + 2] = valOpen
            THEN LET ends == {j \in (i + 3)..Len(body) : body[j] = valClose}
                     j == CHOOSE e \in ends : \A o \in ends : e <= o
                 IN <<[key |-> body[i + 1], value |-> SubSeq(body, i + 3, j - 1)]>>
                        \o Scan(j + 1)
            ELSE Scan(i + 1)
    IN Scan(1)

\* The data replies among the replies received, in their order of arrival,
\* each as the key and the decoded value it is to be rendered with.
DataReplies ==
    LET d == SelectSeq(replies, LAMBDA r : r.type = "ReplyData")
    IN [i \in 1..Len(d) |->
            [key |-> d[i].reskey, value |-> from_utf8_lossy(d[i].payload)]]

\* C8: a 200 on the query path is answered only once the reply channel has
\* ended, and the entries of its body are the data replies received, one
\* each, in their order of arrival, inside the frame of the rendering.
C8_QueryRendering ==
    (rpc = "responded" /\ route \in {"html", "json"} /\ resp.status = 200) =>
        /\ replyEnd
        /\ IF route = "json"
           THEN /\ Entries(resp.body, "{ \"key\": \"", "\", \"value\": \"",
                           "\", \"time\": \"") = DataReplies
                /\ Head(resp.body) = "[\n"
                /\ resp.body[Len(resp.body)] = "\n]\n"
           ELSE /\ Entries(resp.body, "<dt>", "</dt>\n<dd>", "</dd>\n")
                    = DataReplies
                /\ Head(resp.body) = "<dl>\n"
                /\ resp.body[Len(resp.body)] = "\n</dl>\n"

C8_Witness ==
    /\ rpc = "responded"
    /\ route = "json"
    /\ resp.status = 200
    /\ replies = <<ReplyData("/b", <<"xFF", "w">>), SourceFinal,
                   ReplyData("/a", <<"v">>)>>

\* C9: a write request whose body was read (DELETE reads none) has issued
\* exactly one native write, to the path of the URL, with the body bytes and
\* the kind of its method (an empty payload on DELETE); if that write
\* succeeded the response is 200 with no body.
C9_WriteIssued ==
    (/\ rpc = "responded"
     /\ req.method \in {"PUT", "PATCH", "DELETE"}
     /\ (req.method = "DELETE" \/ req.body.readable)) =>
        /\ Len(writes) = 1
        /\ writes[1].path = req.path
        /\ writes[1].payload =
            (IF req.method = "DELETE" THEN <<>> ELSE req.body.bytes)
        /\ writes[1].kind =
            (CASE req.method = "PUT" -> "PUT"
               [] req.method = "PATCH" -> "UPDATE"
               [] req.method = "DELETE" -> "REMOVE")
        /\ writes[1].ok =>
            /\ resp.status = 200
            /\ resp.body = <<>>

C9_Witness ==
    /\ rpc = "responded"
    /\ req.method = "PATCH"
    /\ req.body = Body(<<"xFF", "w">>)
    /\ Len(writes) = 1
    /\ writes[1].ok
    /\ resp.status = 200

\* C10: a PUT or PATCH whose body cannot be read is answered 204 with the
\* text of the error as a plain-text body and issues no native write; a
\* DELETE, whatever its body, is never answered 204 and issues its write.
C10_BodyReadFailure ==
    rpc = "responded" =>
        /\ (req.method \in {"PUT", "PATCH"} /\ ~req.body.readable) =>
            /\ resp.status = 204
            /\ resp.content_type = "text/plain"
            /\ resp.body = to_string("body")
            /\ writes = <<>>
        /\ req.method = "DELETE" =>
            /\ resp.status # 204
            /\ Len(writes) = 1

C10_Witness ==
    /\ rpc = "responded"
    /\ req.method = "PUT"
    /\ ~req.body.readable
    /\ resp.status = 204
    /\ writes = <<>>

\* The event the gateway pushes for a sample.
EventOf(smp) == [name |-> get_kind_str(smp), data |-> sample_to_json(smp)]

\* C12: the events pushed on a connection are, in order, the events of a
\* prefix of the samples the transport delivered to its subscription; the
\* samples not pushed are the one in flight and those still in the channel,
\* in the order of their delivery.
C12_PushOrder ==
    \A c \in Conns :
        /\ Len(events[c]) <= Len(delivered[c])
        /\ \A i \in 1..Len(events[c]) : events[c][i] = EventOf(delivered[c][i])
        /\ pc[c] = "race" =>
            delivered[c][Len(events[c]) + 1] = sample[c]
        /\ \A i \in 1..Len(chan[c]) :
            chan[c][i] = delivered[c][Len(delivered[c]) - Len(chan[c]) + i]

C12_Witness ==
    \E c \in Conns :
        /\ Len(events[c]) = 2
        /\ delivered[c][1] # delivered[c][2]

\* C13: an undeclare that fails is logged once and nothing else: the step
\* that logs it terminates the task, leaves the process running and has
\* called undeclare once; the task does nothing afterwards.
C13_UndeclareErrorLogged ==
    [][\A c \in Conns :
        /\ errors'[c] # errors[c] =>
            /\ errors'[c] = 1
            /\ undeclared'[c] = 1
            /\ pc'[c] = "done"
            /\ alive'
        /\ errors[c] > 0 =>
            /\ pc'[c] = "done"
            /\ undeclared'[c] = undeclared[c]
            /\ errors'[c] = errors[c]]_vars

C13_Witness ==
    \E c \in Conns :
        /\ errors[c] = 1
        /\ undeclared[c] = 1
        /\ pc[c] = "done"
        /\ alive

\* C14: a subscription is declared and removed by the task of its own
\* connection only, after the handler has answered; the step that removes
\* one connection's subscription leaves every other connection's
\* subscription, channel and task as they are.
C14_OwnSubscription ==
    [][\A c \in Conns :
        /\ (c \notin subs /\ c \in subs') =>
            /\ pc[c] = "spawned"
            /\ status[c] = 200
            /\ pc'[c] = "next"
        /\ (c \in subs /\ c \notin subs') =>
            /\ pc[c] = "race"
            /\ pc'[c] = "done"
            /\ \A d \in Conns \ {c} :
                /\ d \in subs <=> d \in subs'
                /\ pc'[d] = pc[d]
                /\ chan'[d] = chan[d]
                /\ chanOpen'[d] = chanOpen[d]
                /\ events'[d] = events[d]]_vars

\* One connection torn down, the other still registered and served after
\* a sample of its own.
C14_Witness ==
    \E c, d \in Conns :
        /\ c # d
        /\ pc[c] = "done"
        /\ c \notin subs
        /\ d \in subs
        /\ pc[d] = "next"
        /\ Len(events[d]) = 1

\* C19: a task takes a sample from its channel only when no send is in
\* flight; a sample delivered during a send is appended to the channel and
\* leaves the send, its sleep and the task where they are.
C19_OneSendInFlight ==
    [][\A c \in Conns :
        /\ (sample'[c] # sample[c] /\ sample'[c] # NoSample) =>
            /\ sample[c] = NoSample
            /\ pc[c] = "next"
            /\ timer[c] = NoTimer
        /\ delivered'[c] # delivered[c] =>
            /\ chan'[c] = Append(chan[c], delivered'[c][Len(delivered'[c])])
            /\ sample'[c] = sample[c]
            /\ timer'[c] = timer[c]
            /\ pc'[c] = pc[c]
            /\ events'[c] = events[c]]_vars

C19_Witness ==
    \E c \in Conns :
        /\ pc[c] = "race"
        /\ timer[c] = SSE_TIMEOUT
        /\ chan[c] # <<>>

\* C20: an event is pushed only by a task in its race, its subscription
\* registered and no undeclare called; a task that has timed out has pushed
\* every sample before the one that timed out, and neither that one nor
\* any later one.
C20_NoPushAfterTimeout ==
    [][\A c \in Conns :
        /\ events'[c] # events[c] =>
            /\ pc[c] = "race"
            /\ c \in subs
            /\ undeclared[c] = 0
            /\ events'[c] = Append(events[c], EventOf(sample[c]))
        /\ pc'[c] = "done" =>
            Len(events'[c]) + 1 + Len(chan'[c]) = Len(delivered'[c])]_vars

C20_Witness ==
    \E c \in Conns :
        /\ pc[c] = "done"
        /\ Len(events[c]) = 1
        /\ Len(delivered[c]) = 2

\* C11: a request whose native query or native write failed is answered
\* 500 with the failure's text as a plain-text body; the operation was
\* issued once, and a failed query received no reply and rendered nothing.
C11_TransportFailureIs500 ==
    /\ Len(queried) + Len(writes) <= 1
    /\ rpc = "responded" =>
        /\ (queried # <<>> /\ ~queried[1].ok) =>
            /\ resp = response(500, "text/plain", to_string("query"))
            /\ replies = <<>>
        /\ (writes # <<>> /\ ~writes[1].ok) =>
            resp = response(500, "text/plain", to_string("write"))
        /\ resp.status = 500 =>
            \/ queried # <<>> /\ ~queried[1].ok
            \/ writes # <<>> /\ ~writes[1].ok

C11_Witness ==
    /\ rpc = "responded"
    /\ req.method = "GET"
    /\ Len(queried) = 1
    /\ ~queried[1].ok
    /\ resp.status = 500

\* C18: the encoding of a native write is the one the essence of the
\* Content-Type names when it names one, else plain text for a base type
\* "text" and octet stream for any other, and octet stream without a
\* Content-Type.
C18_EncodingInference ==
    \A i \in 1..Len(writes) :
        LET mime == req.content_type
            named == encoding_from_str(essence(mime))
        IN /\ writes[i].encoding \in {"APP_OCTET_STREAM", "TEXT_PLAIN", "APP_JSON"}
           /\ ~mime.some => writes[i].encoding = "APP_OCTET_STREAM"
           /\ (mime.some /\ named.ok) => writes[i].encoding = named.encoding
           /\ (mime.some /\ ~named.ok /\ mime.basetype = "text") =>
                writes[i].encoding = "TEXT_PLAIN"
           /\ (mime.some /\ ~named.ok /\ mime.basetype # "text") =>
                writes[i].encoding = "APP_OCTET_STREAM"

\* A write whose Content-Type names no encoding and has base type "text".
C18_Witness ==
    /\ rpc = "responded"
    /\ Len(writes) = 1
    /\ req.content_type = Mime("text", "x-log")
    /\ ~encoding_from_str(essence(req.content_type)).ok
    /\ writes[1].encoding = "TEXT_PLAIN"

\* The number a string of decimal digits writes.
DecimalValue(digits) ==
    LET RECURSIVE V(_)
        V(n) == IF n = 0 THEN 0
                ELSE 10 * V(n - 1) + to_digit(digits[n])
    IN V(Len(digits))

\* The string writes a 16-bit unsigned integer: digits, after an optional
\* sign, of a value up to 65535.
IsU16(str) ==
    LET digits == IF str # <<>> /\ Head(str) = "+" THEN Tail(str) ELSE str
    IN /\ digits # <<>>
       /\ \A i \in 1..Len(digits) : IsDigit(digits[i])
       /\ DecimalValue(digits) <= 65535

HasSeparator(str) == \E i \in 1..Len(str) : str[i] = ":"

\* C17: the resolved address is "0.0.0.0:" and the input for an input
\* without ':' that writes a 16-bit unsigned integer, the input and ":8000"
\* for any other input without ':' (the empty one and "70000" among them),
\* and the input itself for an input with ':'; every input resolves.
C17_AddressResolver ==
    /\ ENABLED ResolveAddress \/ http_port.set
    /\ http_port.set =>
        /\ (~HasSeparator(arg) /\ IsU16(arg)) =>
            http_port.addr = <<"0", ".", "0", ".", "0", ".", "0", ":">> \o arg
        /\ (~HasSeparator(arg) /\ ~IsU16(arg)) =>
            http_port.addr = arg \o <<":", "8", "0", "0", "0">>
        /\ HasSeparator(arg) => http_port.addr = arg

C17_Witness ==
    /\ http_port.set
    /\ arg = <<"7", "0", "0", "0", "0">>
    /\ http_port.addr = <<"7", "0", "0", "0", "0", ":", "8", "0", "0", "0">>

\* C15: a GET answered 200 on the query path has issued no write, and its
\* body is that of the identical GET answered 200 before it when no write
\* request was handled in between.
C15_ReadIdempotent ==
    (rpc = "responded" /\ route \in {"html", "json"}) =>
        /\ writes = <<>>
        /\ (resp.status = 200 /\ prev.some /\ prev.req = req) =>
            resp.body = prev.body

C15_Witness ==
    /\ rpc = "responded"
    /\ route = "json"
    /\ resp.status = 200
    /\ prev.some
    /\ prev.req = req
    /\ space[req.path] = Value(<<"xFF", "w">>)
    /\ resp.body = prev.body

\* C16: after a PUT of payload P with Content-Type text/plain to a path,
\* answered 200 and followed by no other write request to that path, a GET
\* of the path answered 200 has received a sample of that path with
\* payload P, and its body has an entry of that path whose value is the
\* lossy UTF-8 decoding of P.
C16_RoundTrip ==
    (/\ rpc = "responded"
     /\ route \in {"html", "json"}
     /\ resp.status = 200
     /\ put[req.path].some) =>
        LET P == put[req.path].payload
            entry == [key |-> req.path, value |-> from_utf8_lossy(P)]
            entries ==
                IF route = "json"
                THEN Entries(resp.body, "{ \"key\": \"", "\", \"value\": \"",
                             "\", \"time\": \"")
                ELSE Entries(resp.body, "<dt>", "</dt>\n<dd>", "</dd>\n")
        IN /\ \E i \in 1..Len(replies) : replies[i] = ReplyData(req.path, P)
           /\ \E i \in 1..Len(entries) : entries[i] = entry

C16_Witness ==
    /\ rpc = "responded"
    /\ route = "html"
    /\ resp.status = 200
    /\ req.path = "/a"
    /\ put["/a"] = Value(<<"xFF", "w">>)

====
